---- MODULE Spec2Model ----
(***************************************************************************)
(* Model of static/js/app.js: the browser script of the image-generation   *)
(* page.  One action per event handler / callback of the script; the       *)
(* handlers run to completion on the UI thread, so each one is one step.   *)
(* An `await` splits a handler in two steps: the part before the request   *)
(* is sent and the part that runs when the answer arrives.                 *)
(*                                                                         *)
(* Not modelled: styling, the image modal viewer, drag-and-drop visuals,   *)
(* placeholder cycling, the dimension controls and the usage text; the     *)
(* `settings` field of a session (a snapshot of form fields nothing reads  *)
(* back) is left out of the session record.                                *)
(***************************************************************************)
EXTENDS Integers, Sequences, FiniteSets, TLC

\* ------------------------------------------------------------- constants

\* app.js:49  const STORAGE_KEY = 'imageGen_savedResults'
STORAGE_KEY == "imageGen_savedResults"
\* app.js:313, 330, 807  the literal 'imageSessions'
LEGACY_KEY == "imageSessions"
\* app.js:50
MAX_STORED_SESSIONS == 5
\* app.js:687  const maxFiles = 5 is bounded here by MaxFiles (see below)

\* ---------------------------------------------------------------- bounds

\* Largest value the browser clock (Date.now()) takes in the model.
MaxClock == 6
\* Largest number of POST /generate requests in flight at once.
MaxRequests == 1
\* Largest number of GET /health polls in flight at once.
MaxPolls == 1
\* consecutiveFailures is not incremented past this value.
MaxFailures == 4
\* Largest number of pending timeouts of one kind (save reset, auto reload).
MaxTimers == 1
\* Largest number of files held in uploadedFiles.
MaxFiles == 1
\* The history counter savesDone stops counting here.
SavesCap == 6

Keys == {STORAGE_KEY, LEGACY_KEY}

\* ---------------------------------------------------------------- state

VARIABLES
    localStorage,        \* [Keys -> item]: the browser's key-value store
    now,                 \* the browser clock read by Date.now()
    isServerHealthy,     \* app.js:63
    consecutiveFailures, \* app.js:64
    healthCheckInterval, \* app.js:62: TRUE while the 30 s interval is set
    uploadedFiles,       \* app.js:38: number of files held
    dom,                 \* the page elements the script reads and writes
    requests,            \* POST /generate requests in flight
    pollsInFlight,       \* GET /health requests in flight
    savedTimers,         \* pending setTimeout of app.js:183 (2 s)
    reloadTimers,        \* pending setTimeout of app.js:137 (30 s)
    restorePending,      \* pending setTimeout of app.js:975 (1 s)
    savesDone            \* history: saves written into the stored list since
                         \* the key was last removed (counted up to SavesCap)

vars == <<localStorage, now, isServerHealthy, consecutiveFailures,
          healthCheckInterval, uploadedFiles, dom, requests, pollsInFlight,
          savedTimers, reloadTimers, restorePending, savesDone>>

healthVars == <<isServerHealthy, consecutiveFailures, healthCheckInterval>>
timerVars == <<savedTimers, reloadTimers, restorePending>>

Min(a, b) == IF a < b THEN a ELSE b

\* ------------------------------------------------- localStorage and JSON

\* What localStorage.getItem returns: null when the key holds nothing, else
\* the stored text.  A text is kept as the JSON document it spells:
\*   "array"   a JSON array, `items` its elements (session records)
\*   "garbage" a text that is not JSON
\*   "null", "number", "object"  JSON documents that are not arrays
NullItem == [kind |-> "absent", items |-> <<>>]
TextOf(kind, items) == [kind |-> kind, items |-> items]

\* JSON.stringify of a list of sessions: the text of a JSON array.
JSONstringify(list) == TextOf("array", list)

\* JSON.parse: throws on a text that is not JSON; else the value it spells.
JSONparse(text) ==
    CASE text.kind = "garbage" -> [threw |-> TRUE, isArray |-> FALSE, value |-> <<>>]
      [] text.kind = "array"   -> [threw |-> FALSE, isArray |-> TRUE, value |-> text.items]
      [] OTHER                 -> [threw |-> FALSE, isArray |-> FALSE, value |-> <<>>]

\* localStorage.getItem(key) || '[]'
GetItemOrEmpty(store, key) ==
    IF store[key].kind = "absent" THEN TextOf("array", <<>>) ELSE store[key]

\* --------------------------------------------------------------- inputs

\* Values typed into the prompt textarea, as sequences of characters.
PromptValues == { <<>>, <<"a", "b">>, <<"c", "a", "t">>, <<" ", " ", " ">> }

RECURSIVE TrimStart(_)
TrimStart(s) == IF s # <<>> /\ Head(s) = " " THEN TrimStart(Tail(s)) ELSE s

RECURSIVE TrimEnd(_)
TrimEnd(s) ==
    IF s # <<>> /\ s[Len(s)] = " " THEN TrimEnd(SubSeq(s, 1, Len(s) - 1)) ELSE s

\* String.prototype.trim
Trim(s) == TrimEnd(TrimStart(s))

\* Texts shown by showError.
ServerInactiveMsg == "Server is currently inactive"
NetworkErrorMsg == "Network error: Unable to connect to the server"
UnknownErrorMsg == "An unknown error occurred"
NoImagesMsg == "No images were generated. Please try a different prompt."
NoImageFilesMsg == "Please select image files only."

\* An answer to POST /generate.
\*   kind   "reject": fetch rejects; "nonJson": response.json() rejects;
\*          "json": the body parses
\*   success, error: the body's fields of those names ("" = no error field)
\*   shape  what the body's `data` field is: "missing"; "list", the array of
\*          {url} records itself; "wrapped", an object whose own `data` field
\*          is that array
\*   urls   the url fields of the array's records, in order
Answer(kind, success, shape, urls, error) ==
    [kind |-> kind, success |-> success, shape |-> shape, urls |-> urls,
     error |-> error]

RejectedAnswer == Answer("reject", FALSE, "missing", <<>>, "")
NonJsonAnswer == Answer("nonJson", FALSE, "missing", <<>>, "")

\* Outcomes of GET /health: "ok" a success status with a JSON body,
\* "okBadBody" a success status whose body is not JSON, "httpError" a
\* non-success status, "netError" fetch rejects.
PollOutcomes == {"ok", "okBadBody", "httpError", "netError"}

\* ------------------------------------------------------------------ page

NoBrowser == <<>>
NoInfo == <<>>

\* The page as the script finds it when DOMContentLoaded fires.  `uncaught`
\* tells whether an exception has left an event handler or a timeout
\* callback of the script since the page was loaded.
LoadedPage ==
    [ navStatus |-> "",
      generateBtnDisabled |-> FALSE,
      generateBtnContent |-> "Generate",
      serverInactiveClass |-> FALSE,
      bannerShown |-> FALSE,
      errorShown |-> FALSE,
      errorMessage |-> "",
      resultsShown |-> FALSE,
      loadingShown |-> FALSE,
      imageGrid |-> <<>>,
      sessionBrowser |-> NoBrowser,
      sessionInfo |-> NoInfo,
      prompt |-> <<>>,
      modals |-> 0,
      restoreNotice |-> 0,
      imagePreviewShown |-> FALSE,
      referenceUrl |-> "",
      uncaught |-> FALSE ]

\* app.js:53-59
updateNavStatus(d, status) == [d EXCEPT !.navStatus = status]

\* app.js:531-535
showError(d, message) ==
    updateNavStatus([d EXCEPT !.errorMessage = message, !.errorShown = TRUE],
                    "Error")

\* app.js:946-962 (the title attribute is not modelled)
validateForm(d, healthy) ==
    LET prompt == Trim(d.prompt)
        isPromptValid == Len(prompt) >= 3
        isValid == isPromptValid /\ healthy
    IN  [d EXCEPT !.generateBtnDisabled = ~isValid]

\* Variant of displaySavedResults that shows the results section for every
\* session.
displaySavedResults_AlwaysShow(d, session) ==
    [d EXCEPT !.imageGrid = session.images, !.resultsShown = TRUE]

\* app.js:337-383
displaySavedResults(d, session) ==
    IF Len(session.images) > 0
    THEN [d EXCEPT !.imageGrid = session.images, !.resultsShown = TRUE]
    ELSE [d EXCEPT !.imageGrid = <<>>]

\* app.js:286-308
updateSessionInfo(d, session) == [d EXCEPT !.sessionInfo = <<session>>]

\* app.js:218-284: the rendered selector keeps the list it was built from
\* (the closure variable `sessions`) and which item carries class 'active'.
createSessionBrowser(d, sessions) ==
    IF Len(sessions) <= 1
    THEN [d EXCEPT !.sessionBrowser = NoBrowser]
    ELSE [d EXCEPT !.sessionBrowser = <<[sessions |-> sessions, active |-> 0]>>]

\* ---------------------------------------------------------- session store

\* app.js:161-171
NewSession(clock, prompt, images) ==
    [id |-> clock, timestamp |-> clock, prompt |-> prompt, images |-> images]

\* Array.prototype.unshift
Unshift(list, x) == <<x>> \o list

\* Array.prototype.slice(0, n)
Slice0(list, n) == SubSeq(list, 1, Min(n, Len(list)))

\* Array.prototype.splice(index, 1), index counted from 0
Splice1(list, index) ==
    IF index < Len(list)
    THEN SubSeq(list, 1, index) \o SubSeq(list, index + 2, Len(list))
    ELSE list

\* Variants of saveImageSession with one slip each (used to test the claims).
\* The list is not truncated.
saveImageSession_NoSlice(store, d, clock, prompt, images, quotaOk) ==
    LET parsed == JSONparse(GetItemOrEmpty(store, STORAGE_KEY))
        savedSessions == Unshift(parsed.value, NewSession(clock, prompt, images))
    IN  IF parsed.threw \/ ~parsed.isArray \/ ~quotaOk
        THEN [store |-> store, dom |-> d, timer |-> FALSE]
        ELSE [store |-> [store EXCEPT ![STORAGE_KEY] = JSONstringify(savedSessions)],
              dom |-> updateNavStatus(d, "Saved"),
              timer |-> TRUE]

\* The new session is pushed at the end instead of the beginning.
saveImageSession_Push(store, d, clock, prompt, images, quotaOk) ==
    LET parsed == JSONparse(GetItemOrEmpty(store, STORAGE_KEY))
        savedSessions ==
            Slice0(Append(parsed.value, NewSession(clock, prompt, images)),
                   MAX_STORED_SESSIONS)
    IN  IF parsed.threw \/ ~parsed.isArray \/ ~quotaOk
        THEN [store |-> store, dom |-> d, timer |-> FALSE]
        ELSE [store |-> [store EXCEPT ![STORAGE_KEY] = JSONstringify(savedSessions)],
              dom |-> updateNavStatus(d, "Saved"),
              timer |-> TRUE]

\* The last five entries are kept instead of the first five.
saveImageSession_KeepLast(store, d, clock, prompt, images, quotaOk) ==
    LET parsed == JSONparse(GetItemOrEmpty(store, STORAGE_KEY))
        all == Unshift(parsed.value, NewSession(clock, prompt, images))
        savedSessions ==
            SubSeq(all, Len(all) - Min(MAX_STORED_SESSIONS, Len(all)) + 1, Len(all))
    IN  IF parsed.threw \/ ~parsed.isArray \/ ~quotaOk
        THEN [store |-> store, dom |-> d, timer |-> FALSE]
        ELSE [store |-> [store EXCEPT ![STORAGE_KEY] = JSONstringify(savedSessions)],
              dom |-> updateNavStatus(d, "Saved"),
              timer |-> TRUE]

\* A failure is not caught: it reaches the catch of the submit handler
\* (app.js:462-463).
saveImageSession_Raises(store, d, clock, prompt, images, quotaOk) ==
    LET parsed == JSONparse(GetItemOrEmpty(store, STORAGE_KEY))
        savedSessions ==
            Slice0(Unshift(parsed.value, NewSession(clock, prompt, images)),
                   MAX_STORED_SESSIONS)
    IN  IF parsed.threw \/ ~parsed.isArray \/ ~quotaOk
        THEN [store |-> store, dom |-> showError(d, NetworkErrorMsg),
              timer |-> FALSE]
        ELSE [store |-> [store EXCEPT ![STORAGE_KEY] = JSONstringify(savedSessions)],
              dom |-> updateNavStatus(d, "Saved"),
              timer |-> TRUE]

\* app.js:157-190.  quotaOk: whether localStorage.setItem accepts the write.
\* Yields the store, the page and whether the 2 s timeout was set.
saveImageSession(store, d, clock, prompt, images, quotaOk) ==
    LET parsed == JSONparse(GetItemOrEmpty(store, STORAGE_KEY))
        savedSessions ==
            Slice0(Unshift(parsed.value, NewSession(clock, prompt, images)),
                   MAX_STORED_SESSIONS)
    IN  IF parsed.threw \/ ~parsed.isArray \/ ~quotaOk
        THEN [store |-> store, dom |-> d, timer |-> FALSE]
        ELSE [store |-> [store EXCEPT ![STORAGE_KEY] = JSONstringify(savedSessions)],
              dom |-> updateNavStatus(d, "Saved"),
              timer |-> TRUE]

\* Variant of loadSavedSessions without its try/catch.
loadSavedSessions_NoCatch(store) ==
    LET parsed == JSONparse(GetItemOrEmpty(store, STORAGE_KEY))
    IN  [threw |-> parsed.threw, isArray |-> parsed.isArray, value |-> parsed.value]

\* app.js:192-199.  `threw`: whether the call throws (the catch returns the
\* empty list instead).  A stored JSON document that is not an array is
\* returned as it is; `isArray` tells the callers, which use it as an array.
loadSavedSessions(store) ==
    LET parsed == JSONparse(GetItemOrEmpty(store, STORAGE_KEY))
    IN  IF parsed.threw
        THEN [threw |-> FALSE, isArray |-> TRUE, value |-> <<>>]
        ELSE [threw |-> FALSE, isArray |-> parsed.isArray, value |-> parsed.value]

\* app.js:804-812
clearStoredSessions(store) ==
    [store EXCEPT ![STORAGE_KEY] = NullItem, ![LEGACY_KEY] = NullItem]

\* ------------------------------------------------------- generation flow

\* app.js:474-529 with its argument `apiResponse` bound to the body's `data`
\* field (app.js:458).  apiResponse.data is the array only when the body's
\* `data` is an object wrapping it; on the array itself it is undefined.
\* The prompt saved is the textarea's value when the answer is handled.
displayResults(store, d, clock, answer, quotaOk) ==
    LET cleared == [d EXCEPT !.imageGrid = <<>>]
    IN  IF answer.shape = "wrapped" /\ Len(answer.urls) > 0
        THEN saveImageSession(store,
                 [cleared EXCEPT !.imageGrid = answer.urls, !.resultsShown = TRUE],
                 clock, d.prompt, answer.urls, quotaOk)
        ELSE [store |-> store, dom |-> showError(cleared, NoImagesMsg),
              timer |-> FALSE]

\* Variant of handleAnswer that ignores the server's error text.
handleAnswer_GenericOnly(store, d, clock, answer, quotaOk) ==
    IF answer.kind # "json"
    THEN [store |-> store, dom |-> showError(d, NetworkErrorMsg), timer |-> FALSE]
    ELSE IF answer.success /\ answer.shape # "missing"
         THEN displayResults(store, d, clock, answer, quotaOk)
         ELSE [store |-> store, dom |-> showError(d, UnknownErrorMsg),
               timer |-> FALSE]

\* app.js:449-464: the try/catch around the request and its answer.
handleAnswer(store, d, clock, answer, quotaOk) ==
    IF answer.kind # "json"
    THEN [store |-> store, dom |-> showError(d, NetworkErrorMsg), timer |-> FALSE]
    ELSE IF answer.success /\ answer.shape # "missing"
         THEN displayResults(store, d, clock, answer, quotaOk)
         ELSE [store |-> store,
               dom |-> showError(d, IF answer.error # "" THEN answer.error
                                    ELSE UnknownErrorMsg),
               timer |-> FALSE]

\* app.js:465-471: the finally block.
finishSubmit(d, originalContent) ==
    updateNavStatus([d EXCEPT !.loadingShown = FALSE,
                              !.generateBtnDisabled = FALSE,
                              !.generateBtnContent = originalContent],
                    "Ready")

\* Variant of Submit without the health check of app.js:409-412.
Submit_NoHealthCheck ==
    /\ ~dom.generateBtnDisabled
    /\ Len(requests) < MaxRequests
    /\ dom' = [updateNavStatus(dom, "Generating...") EXCEPT
                  !.errorShown = FALSE,
                  !.resultsShown = FALSE,
                  !.loadingShown = TRUE,
                  !.generateBtnDisabled = TRUE,
                  !.generateBtnContent = "Generating..."]
    /\ requests' = Append(requests,
           [prompt |-> dom.prompt,
            originalContent |-> dom.generateBtnContent])
    /\ UNCHANGED <<localStorage, savesDone, now, healthVars, uploadedFiles,
                   pollsInFlight, timerVars>>

\* app.js:405-447: the submit event, up to the request being sent.  The
\* event comes from the submit button or from Ctrl/Cmd+Enter (app.js:927-934),
\* neither of which acts while the button is disabled.
Submit ==
    /\ ~dom.generateBtnDisabled
    /\ IF ~isServerHealthy
       THEN /\ dom' = showError(dom, ServerInactiveMsg)
            /\ UNCHANGED requests
       ELSE /\ Len(requests) < MaxRequests
            /\ dom' = [updateNavStatus(dom, "Generating...") EXCEPT
                          !.errorShown = FALSE,
                          !.resultsShown = FALSE,
                          !.loadingShown = TRUE,
                          !.generateBtnDisabled = TRUE,
                          !.generateBtnContent = "Generating..."]
            /\ requests' = Append(requests,
                   [prompt |-> dom.prompt,
                    originalContent |-> dom.generateBtnContent])
    /\ UNCHANGED <<localStorage, savesDone, now, healthVars, uploadedFiles,
                   pollsInFlight, timerVars>>

\* Variant of GenerateAnswer in which a request that fails with a network
\* error counts as a failed health poll.
GenerateAnswer_CountsFailure(i, answer, quotaOk) ==
    /\ i \in 1..Len(requests)
    /\ answer.kind = "reject" => consecutiveFailures < MaxFailures
    /\ LET r == handleAnswer(localStorage, dom, now, answer, quotaOk)
       IN  /\ r.timer => savedTimers < MaxTimers
           /\ localStorage' = r.store
           /\ dom' = finishSubmit(r.dom, requests[i].originalContent)
           /\ savedTimers' = IF r.timer THEN savedTimers + 1 ELSE savedTimers
           /\ savesDone' = IF r.timer THEN Min(savesDone + 1, SavesCap)
                            ELSE savesDone
    /\ requests' = SubSeq(requests, 1, i - 1) \o SubSeq(requests, i + 1, Len(requests))
    /\ consecutiveFailures' = IF answer.kind = "reject"
                              THEN consecutiveFailures + 1
                              ELSE consecutiveFailures
    /\ UNCHANGED <<now, isServerHealthy, healthCheckInterval, uploadedFiles,
                   pollsInFlight, reloadTimers, restorePending>>

\* app.js:449-471: the answer to request number i arrives (answers arrive in
\* any order) and the handler runs to its end.
GenerateAnswer(i, answer, quotaOk) ==
    /\ i \in 1..Len(requests)
    /\ LET r == handleAnswer(localStorage, dom, now, answer, quotaOk)
       IN  /\ r.timer => savedTimers < MaxTimers
           /\ localStorage' = r.store
           /\ dom' = finishSubmit(r.dom, requests[i].originalContent)
           /\ savedTimers' = IF r.timer THEN savedTimers + 1 ELSE savedTimers
           /\ savesDone' = IF r.timer THEN Min(savesDone + 1, SavesCap)
                            ELSE savesDone
    /\ requests' = SubSeq(requests, 1, i - 1) \o SubSeq(requests, i + 1, Len(requests))
    /\ UNCHANGED <<now, healthVars, uploadedFiles, pollsInFlight,
                   reloadTimers, restorePending>>

\* app.js:183-185: the timeout set by a save fires.
SavedTimerFires ==
    /\ savedTimers > 0
    /\ savedTimers' = savedTimers - 1
    /\ dom' = updateNavStatus(dom, "Active")
    /\ UNCHANGED <<localStorage, savesDone, now, healthVars, uploadedFiles, requests,
                   pollsInFlight, reloadTimers, restorePending>>

\* app.js:964: the input event of the prompt textarea.
PromptInput(value) ==
    /\ value # dom.prompt
    /\ dom' = validateForm([dom EXCEPT !.prompt = value], isServerHealthy)
    /\ UNCHANGED <<localStorage, savesDone, now, healthVars, uploadedFiles, requests,
                   pollsInFlight, timerVars>>

\* The browser clock advances.
Tick ==
    /\ now < MaxClock
    /\ now' = now + 1
    /\ UNCHANGED <<localStorage, savesDone, healthVars, uploadedFiles, dom, requests,
                   pollsInFlight, timerVars>>

\* ------------------------------------------------------- session browser

\* Variant of restoreLastSession that displays the oldest session.
restoreLastSession_Oldest(store, d) ==
    LET loaded == loadSavedSessions(store)
        savedSessions == loaded.value
        last == savedSessions[Len(savedSessions)]
    IN  IF loaded.isArray /\ Len(savedSessions) > 0
        THEN [updateSessionInfo(
                  displaySavedResults(createSessionBrowser(d, savedSessions), last),
                  last)
              EXCEPT !.restoreNotice = Len(savedSessions)]
        ELSE IF store[STORAGE_KEY].kind = "null"
        THEN [d EXCEPT !.uncaught = TRUE]
        ELSE d

\* app.js:201-216, run by the timeout of app.js:975.  When the stored
\* document is not an array nothing is rendered; when it is null, reading
\* its length (app.js:203) throws.
restoreLastSession(store, d) ==
    LET loaded == loadSavedSessions(store)
        savedSessions == loaded.value
    IN  IF loaded.isArray /\ Len(savedSessions) > 0
        THEN [updateSessionInfo(
                  displaySavedResults(createSessionBrowser(d, savedSessions),
                                      savedSessions[1]),
                  savedSessions[1])
              EXCEPT !.restoreNotice = Len(savedSessions)]
        ELSE IF store[STORAGE_KEY].kind = "null"
        THEN [d EXCEPT !.uncaught = TRUE]
        ELSE d

\* app.js:322-324 and 331-333
clearSessionUI(d) ==
    [d EXCEPT !.sessionBrowser = NoBrowser, !.sessionInfo = NoInfo,
              !.imageGrid = <<>>]

\* app.js:310-326.  quotaOk: whether localStorage.setItem accepts the write;
\* when it throws, or when the stored document is not an array (splice is
\* not a function), the exception leaves the click handler there.
deleteSession(store, d, sessionIndex, quotaOk) ==
    LET loaded == loadSavedSessions(store)
        savedSessions == Splice1(loaded.value, sessionIndex)
    IN  IF ~loaded.isArray \/ ~quotaOk
        THEN [store |-> store, dom |-> [d EXCEPT !.uncaught = TRUE]]
        ELSE [store |-> [store EXCEPT ![LEGACY_KEY] = JSONstringify(savedSessions)],
              dom |-> IF Len(savedSessions) > 0
                      THEN updateSessionInfo(
                               displaySavedResults(
                                   createSessionBrowser(d, savedSessions),
                                   savedSessions[1]),
                               savedSessions[1])
                      ELSE clearSessionUI(d)]

\* app.js:328-335.  confirmed: the user's answer to confirm().
clearAllSessions(store, d, confirmed) ==
    IF confirmed
    THEN [store |-> [store EXCEPT ![LEGACY_KEY] = NullItem],
          dom |-> clearSessionUI(d)]
    ELSE [store |-> store, dom |-> d]

\* app.js:975-977: the restore timeout fires.
RestoreTimerFires ==
    /\ restorePending
    /\ restorePending' = FALSE
    /\ dom' = restoreLastSession(localStorage, dom)
    /\ UNCHANGED <<localStorage, savesDone, now, healthVars, uploadedFiles, requests,
                   pollsInFlight, savedTimers, reloadTimers>>

\* app.js:259-272: a click on item number sessionIndex of the selector.
SelectSession(sessionIndex) ==
    /\ dom.sessionBrowser # NoBrowser
    /\ LET sessions == dom.sessionBrowser[1].sessions
       IN  /\ sessionIndex \in 0..(Len(sessions) - 1)
           /\ dom' = updateSessionInfo(
                         displaySavedResults(
                             [dom EXCEPT !.sessionBrowser[1].active = sessionIndex],
                             sessions[sessionIndex + 1]),
                         sessions[sessionIndex + 1])
    /\ UNCHANGED <<localStorage, savesDone, now, healthVars, uploadedFiles, requests,
                   pollsInFlight, timerVars>>

\* app.js:274-278: a click on the delete button of item number sessionIndex.
DeleteSessionClick(sessionIndex, quotaOk) ==
    /\ dom.sessionBrowser # NoBrowser
    /\ sessionIndex \in 0..(Len(dom.sessionBrowser[1].sessions) - 1)
    /\ LET r == deleteSession(localStorage, dom, sessionIndex, quotaOk)
       IN  /\ localStorage' = r.store
           /\ dom' = r.dom
    /\ UNCHANGED <<now, healthVars, uploadedFiles, requests, pollsInFlight,
                   timerVars, savesDone>>

\* app.js:280-282: a click on "Clear All".
ClearAllClick(confirmed) ==
    /\ dom.sessionBrowser # NoBrowser
    /\ LET r == clearAllSessions(localStorage, dom, confirmed)
       IN  /\ localStorage' = r.store
           /\ dom' = r.dom
    /\ UNCHANGED <<now, healthVars, uploadedFiles, requests, pollsInFlight,
                   timerVars, savesDone>>

\* app.js:391 and 398-402: the restore notification is closed or times out.
NoticeRemoved ==
    /\ dom.restoreNotice > 0
    /\ dom' = [dom EXCEPT !.restoreNotice = 0]
    /\ UNCHANGED <<localStorage, savesDone, now, healthVars, uploadedFiles, requests,
                   pollsInFlight, timerVars>>

\* --------------------------------------------------------- health monitor

\* app.js:110-140: the modal is appended to the page (the timeout it sets is
\* counted by the caller in reloadTimers).
showReconnectionDialog(d) == [d EXCEPT !.modals = @ + 1]

\* Variants of the two branches of checkServerHealth with one slip each
\* (used to test the claims).
\* The form is not validated again on recovery.
healthSuccess_NoValidate(d, healthy, failures) ==
    IF failures > 0
    THEN [healthy |-> TRUE, failures |-> 0, dialog |-> FALSE,
          dom |-> [updateNavStatus(d, "Active") EXCEPT
                      !.serverInactiveClass = FALSE,
                      !.bannerShown = FALSE]]
    ELSE [healthy |-> healthy, failures |-> failures, dialog |-> FALSE,
          dom |-> IF healthy THEN updateNavStatus(d, "Active") ELSE d]

\* Inactive only from the 3rd failure on.
healthFailure_LateInactive(d, healthy, failures) ==
    LET n == failures + 1
    IN  IF n <= 2
        THEN [healthy |-> healthy, failures |-> n, dialog |-> FALSE,
              dom |-> updateNavStatus(d, "Checking...")]
        ELSE LET inactive == validateForm(
                                 [updateNavStatus(d, "Inactive") EXCEPT
                                     !.serverInactiveClass = TRUE,
                                     !.bannerShown = TRUE],
                                 FALSE)
             IN  [healthy |-> FALSE, failures |-> n, dialog |-> (n = 3),
                  dom |-> IF n = 3 THEN showReconnectionDialog(inactive)
                          ELSE inactive]

\* The dialog is shown on the 2nd failure.
healthFailure_DialogAtSecond(d, healthy, failures) ==
    LET n == failures + 1
    IN  IF n = 1
        THEN [healthy |-> healthy, failures |-> n, dialog |-> FALSE,
              dom |-> updateNavStatus(d, "Checking...")]
        ELSE LET inactive == validateForm(
                                 [updateNavStatus(d, "Inactive") EXCEPT
                                     !.serverInactiveClass = TRUE,
                                     !.bannerShown = TRUE],
                                 FALSE)
             IN  [healthy |-> FALSE, failures |-> n, dialog |-> (n = 2),
                  dom |-> IF n = 2 THEN showReconnectionDialog(inactive)
                          ELSE inactive]

\* Inactive from the 1st failure on.
healthFailure_EarlyInactive(d, healthy, failures) ==
    LET n == failures + 1
        inactive == validateForm(
                        [updateNavStatus(d, "Inactive") EXCEPT
                            !.serverInactiveClass = TRUE,
                            !.bannerShown = TRUE],
                        FALSE)
    IN  [healthy |-> FALSE, failures |-> n, dialog |-> (n = 3),
         dom |-> IF n = 3 THEN showReconnectionDialog(inactive) ELSE inactive]

\* app.js:73-85: the success branch of checkServerHealth.
healthSuccess(d, healthy, failures) ==
    IF failures > 0
    THEN [healthy |-> TRUE, failures |-> 0, dialog |-> FALSE,
          dom |-> validateForm(
                      [updateNavStatus(d, "Active") EXCEPT
                          !.serverInactiveClass = FALSE,
                          !.bannerShown = FALSE],
                      TRUE)]
    ELSE [healthy |-> healthy, failures |-> failures, dialog |-> FALSE,
          dom |-> IF healthy THEN updateNavStatus(d, "Active") ELSE d]

\* app.js:90-107: the catch branch of checkServerHealth.
healthFailure(d, healthy, failures) ==
    LET n == failures + 1
    IN  IF n = 1
        THEN [healthy |-> healthy, failures |-> n, dialog |-> FALSE,
              dom |-> updateNavStatus(d, "Checking...")]
        ELSE LET inactive == validateForm(
                                 [updateNavStatus(d, "Inactive") EXCEPT
                                     !.serverInactiveClass = TRUE,
                                     !.bannerShown = TRUE],
                                 FALSE)
             IN  [healthy |-> FALSE, failures |-> n, dialog |-> (n = 3),
                  dom |-> IF n = 3 THEN showReconnectionDialog(inactive)
                          ELSE inactive]

\* app.js:66-108: the answer of GET /health decides the branch.  A success
\* status reaches the success branch only when response.json() resolves;
\* when it rejects, the catch branch runs, as for a failed request.
checkServerHealth(d, healthy, failures, outcome) ==
    IF outcome = "ok"
    THEN healthSuccess(d, healthy, failures)
    ELSE healthFailure(d, healthy, failures)

\* app.js:147: the 30 s interval fires and a poll is sent.
PollStart ==
    /\ healthCheckInterval
    /\ pollsInFlight < MaxPolls
    /\ pollsInFlight' = pollsInFlight + 1
    /\ UNCHANGED <<localStorage, savesDone, now, healthVars, uploadedFiles, dom,
                   requests, timerVars>>

\* app.js:66-108: a poll in flight completes with `outcome`.
PollComplete(outcome) ==
    /\ pollsInFlight > 0
    /\ outcome # "ok" => consecutiveFailures < MaxFailures
    /\ LET r == checkServerHealth(dom, isServerHealthy, consecutiveFailures,
                                  outcome)
       IN  /\ r.dialog => reloadTimers < MaxTimers
           /\ isServerHealthy' = r.healthy
           /\ consecutiveFailures' = r.failures
           /\ dom' = r.dom
           /\ reloadTimers' = IF r.dialog THEN reloadTimers + 1 ELSE reloadTimers
    /\ pollsInFlight' = pollsInFlight - 1
    /\ UNCHANGED <<localStorage, savesDone, now, healthCheckInterval, uploadedFiles,
                   requests, savedTimers, restorePending>>

\* app.js:127: the "Wait" button removes the modal it belongs to.
DismissModal ==
    /\ dom.modals > 0
    /\ dom' = [dom EXCEPT !.modals = @ - 1]
    /\ UNCHANGED <<localStorage, savesDone, now, healthVars, uploadedFiles, requests,
                   pollsInFlight, timerVars>>

\* app.js:150-154, the beforeunload listener (app.js:980): the interval is
\* cleared.  Polls in flight are left alone.
stopHealthMonitoring ==
    /\ healthCheckInterval
    /\ healthCheckInterval' = FALSE
    /\ UNCHANGED <<localStorage, savesDone, now, isServerHealthy,
                   consecutiveFailures, uploadedFiles, dom, requests,
                   pollsInFlight, timerVars>>

\* ------------------------------------------------------- reference images

\* app.js:687
MaxUploadFiles == 5
TooManyFilesMsg == "Maximum 5 images allowed."
FileTooLargeMsg == "Some files are too large. Maximum size is 10MB per image."

\* Values typed into the reference image URL field.
ReferenceUrls == {"", "https://host/ref.png", "ref"}

\* app.js:898-905
isValidImageUrl(url) == url = "https://host/ref.png"

\* app.js:921-924
hideImagePreview(d) == [d EXCEPT !.imagePreviewShown = FALSE]

\* app.js:685-714.  imageCount: how many of the chosen files are images;
\* oversize: whether one of them is larger than 10 MB.
FileSelect(imageCount, oversize) ==
    /\ IF imageCount = 0
       THEN dom' = showError(dom, NoImageFilesMsg) /\ UNCHANGED uploadedFiles
       ELSE IF uploadedFiles + imageCount > MaxUploadFiles
       THEN dom' = showError(dom, TooManyFilesMsg) /\ UNCHANGED uploadedFiles
       ELSE IF oversize
       THEN dom' = showError(dom, FileTooLargeMsg) /\ UNCHANGED uploadedFiles
       ELSE /\ uploadedFiles + imageCount <= MaxFiles
            /\ uploadedFiles' = uploadedFiles + imageCount
            /\ UNCHANGED dom
    /\ UNCHANGED <<localStorage, savesDone, now, healthVars, requests, pollsInFlight,
                   timerVars>>

\* app.js:786-795: the remove button of one uploaded file.
RemoveUploadedImage ==
    /\ uploadedFiles > 0
    /\ uploadedFiles' = uploadedFiles - 1
    /\ localStorage' = IF uploadedFiles' = 0
                       THEN clearStoredSessions(localStorage)
                       ELSE localStorage
    /\ savesDone' = IF uploadedFiles' = 0 THEN 0 ELSE savesDone
    /\ UNCHANGED <<now, healthVars, dom, requests, pollsInFlight, timerVars>>

\* app.js:643-660 with clearUploadedImages (app.js:797-802).
SwitchReferenceTab(tabName) ==
    /\ IF tabName = "upload"
       THEN /\ dom' = hideImagePreview([dom EXCEPT !.referenceUrl = ""])
            /\ UNCHANGED <<uploadedFiles, localStorage, savesDone>>
       ELSE /\ uploadedFiles' = 0
            /\ localStorage' = clearStoredSessions(localStorage)
            /\ savesDone' = 0
            /\ UNCHANGED dom
    /\ UNCHANGED <<now, healthVars, requests, pollsInFlight, timerVars>>

\* app.js:818-825: the input event of the URL field (the preview appears
\* once the image has loaded).
ReferenceUrlInput(url) ==
    /\ url # dom.referenceUrl
    /\ dom' = [dom EXCEPT !.referenceUrl = url,
                          !.imagePreviewShown = (url # "" /\ isValidImageUrl(url))]
    /\ UNCHANGED <<localStorage, savesDone, now, healthVars, uploadedFiles, requests,
                   pollsInFlight, timerVars>>

\* app.js:828-832: the remove button of the reference image preview.
RemoveImageClick ==
    /\ dom.imagePreviewShown
    /\ dom' = hideImagePreview([dom EXCEPT !.referenceUrl = ""])
    /\ localStorage' = clearStoredSessions(localStorage)
    /\ savesDone' = 0
    /\ UNCHANGED <<now, healthVars, uploadedFiles, requests, pollsInFlight,
                   timerVars>>

\* ------------------------------------------------------------- page load

\* app.js:1-981: what the DOMContentLoaded handler leaves on a freshly
\* loaded page: validateForm() (app.js:965) and 'Starting...' (app.js:968).
StartedPage == updateNavStatus(validateForm(LoadedPage, TRUE), "Starting...")

\* The first load of the page, on an empty store.  The first health poll is
\* in flight (app.js:144) and the restore timeout is set (app.js:975).
Init ==
    /\ localStorage = [k \in Keys |-> NullItem]
    /\ now = 1
    /\ isServerHealthy = TRUE
    /\ consecutiveFailures = 0
    /\ healthCheckInterval = TRUE
    /\ uploadedFiles = 0
    /\ dom = StartedPage
    /\ requests = <<>>
    /\ pollsInFlight = 1
    /\ savedTimers = 0
    /\ reloadTimers = 0
    /\ restorePending = TRUE
    /\ savesDone = 0

\* app.js:1-981: the page is loaded again.  Script state, pending requests
\* and timeouts start over; localStorage and the clock live on.
Reload ==
    /\ isServerHealthy' = TRUE
    /\ consecutiveFailures' = 0
    /\ healthCheckInterval' = TRUE
    /\ uploadedFiles' = 0
    /\ dom' = StartedPage
    /\ requests' = <<>>
    /\ pollsInFlight' = 1
    /\ savedTimers' = 0
    /\ reloadTimers' = 0
    /\ restorePending' = TRUE
    /\ UNCHANGED <<localStorage, savesDone, now>>

\* Variant of AutoReload in which the timeout reloads the page only while
\* a reconnection dialog is still on it.
AutoReload_IfPromptShown ==
    /\ reloadTimers > 0
    /\ IF dom.modals > 0
       THEN Reload
       ELSE /\ reloadTimers' = reloadTimers - 1
            /\ UNCHANGED <<localStorage, savesDone, now, healthVars, uploadedFiles,
                           dom, requests, pollsInFlight, savedTimers,
                           restorePending>>

\* app.js:137-139: the 30 s timeout of the reconnection dialog fires.
AutoReload == reloadTimers > 0 /\ Reload

\* app.js:124: the "Refresh Now" button of the reconnection dialog.
RefreshNow == dom.modals > 0 /\ Reload

\* The user reloads the page in the browser.
UserReload == Reload

\* --------------------------------------------------------- specifications

\* Answers to POST /generate with the backend's success flag set: the array
\* of images as the body's `data` itself, and wrapped in an object.
ListAnswer == Answer("json", TRUE, "list", <<"u1", "u2">>, "")
WrappedAnswer == Answer("json", TRUE, "wrapped", <<"u1", "u2">>, "")

\* Sequences of generations: the prompt is typed, the form is submitted and
\* answered, the clock advances.
SaveNext ==
    \/ Tick
    \/ PromptInput(<<"c", "a", "t">>)
    \/ Submit
    \/ \E i \in 1..MaxRequests, a \in {ListAnswer, WrappedAnswer, RejectedAnswer},
          q \in BOOLEAN :
           GenerateAnswer(i, a, q)
    \/ SavedTimerFires

SaveSpec == Init /\ [][SaveNext]_vars

\* The session store over page loads: generations, the session selector,
\* the reference image controls and reloads, with the backend healthy and
\* within one value of the clock (every session carries the same id).
Next ==
    \/ PromptInput(<<"c", "a", "t">>)
    \/ Submit
    \/ \E i \in 1..MaxRequests, q \in BOOLEAN : GenerateAnswer(i, WrappedAnswer, q)
    \/ SavedTimerFires
    \/ RestoreTimerFires
    \/ \E k \in 0..(MAX_STORED_SESSIONS - 1) : SelectSession(k)
    \/ \E k \in 0..(MAX_STORED_SESSIONS - 1), q \in BOOLEAN : DeleteSessionClick(k, q)
    \/ \E c \in BOOLEAN : ClearAllClick(c)
    \/ \E n \in 1..MaxFiles : FileSelect(n, FALSE)
    \/ RemoveUploadedImage
    \/ \E t \in {"upload", "url"} : SwitchReferenceTab(t)
    \/ ReferenceUrlInput("https://host/ref.png")
    \/ RemoveImageClick
    \/ UserReload

Spec == Init /\ [][Next]_vars

\* The health monitor with the form: polls and their answers, prompt edits,
\* submissions and their answers, the reconnection dialog and its reloads.
\* localStorage refuses writes here (storage disabled or full), so that
\* generations leave no session behind.
HealthNext ==
    \/ PollStart
    \/ \E o \in PollOutcomes : PollComplete(o)
    \/ \E v \in PromptValues : PromptInput(v)
    \/ Submit
    \/ \E i \in 1..MaxRequests, a \in {WrappedAnswer, RejectedAnswer} :
           GenerateAnswer(i, a, FALSE)
    \/ RestoreTimerFires
    \/ DismissModal
    \/ RefreshNow
    \/ AutoReload

HealthSpec == Init /\ [][HealthNext]_vars

\* The page opened on a store left by earlier visits or by other scripts of
\* the origin: no value, a text that is not JSON, a JSON document that is not
\* an array, or a list of up to MaxOld sessions, newest first.
MaxOld == 3

OldUrls == <<"a", "b", "c", "d", "e">>

\* The session saved at clock value k by an earlier visit.
OldSession(k) == NewSession(k, <<"o", "l", "d">>, <<OldUrls[k], "z">>)

\* The list of the n sessions saved at clock values n, ..., 1.
OldList(n) == [j \in 1..n |-> OldSession(n + 1 - j)]

StoredTexts ==
    {NullItem} \cup {TextOf(kind, <<>>) : kind \in {"garbage", "null", "number", "object"}}
               \cup {JSONstringify(OldList(n)) : n \in 0..MaxOld}

StoreInit ==
    /\ \E text \in StoredTexts :
           localStorage = [k \in Keys |-> IF k = STORAGE_KEY THEN text ELSE NullItem]
    /\ now = MaxOld
    /\ isServerHealthy = TRUE
    /\ consecutiveFailures = 0
    /\ healthCheckInterval = TRUE
    /\ uploadedFiles = 0
    /\ dom = StartedPage
    /\ requests = <<>>
    /\ pollsInFlight = 1
    /\ savedTimers = 0
    /\ reloadTimers = 0
    /\ restorePending = TRUE
    /\ savesDone = 0

\* Answers to POST /generate that report a failure or carry no image.
FailedAnswer == Answer("json", FALSE, "missing", <<>>, "model overloaded")
FailedNoText == Answer("json", FALSE, "missing", <<>>, "")
FailedWithData == Answer("json", FALSE, "list", <<"u1">>, "model overloaded")
EmptyListAnswer == Answer("json", TRUE, "list", <<>>, "")
EmptyListWithText == Answer("json", TRUE, "list", <<>>, "model overloaded")
EmptyWrappedAnswer == Answer("json", TRUE, "wrapped", <<>>, "")

StoreAnswers ==
    {WrappedAnswer, FailedAnswer, FailedNoText, FailedWithData, EmptyListAnswer,
     EmptyListWithText, EmptyWrappedAnswer}

\* Restoration, the session selector and generations over such a store.
StoreNext ==
    \/ PromptInput(<<"c", "a", "t">>)
    \/ Submit
    \/ \E i \in 1..MaxRequests, a \in StoreAnswers, q \in BOOLEAN :
           GenerateAnswer(i, a, q)
    \/ SavedTimerFires
    \/ RestoreTimerFires
    \/ \E k \in 0..(MAX_STORED_SESSIONS - 1) : SelectSession(k)
    \/ UserReload

StoreSpec == StoreInit /\ [][StoreNext]_vars

\* The page opened on a list of one or two sessions left by earlier visits,
\* one of which may carry no image (as an earlier version of the script or
\* another script of the origin can leave it).
EmptySession(k) == NewSession(k, <<"o", "l", "d">>, <<>>)

PageLists ==
    {OldList(1), OldList(2), <<EmptySession(1)>>,
     <<EmptySession(2), OldSession(1)>>, <<OldSession(2), EmptySession(1)>>}

PageInit ==
    /\ \E list \in PageLists :
           localStorage = [k \in Keys |-> IF k = STORAGE_KEY
                                          THEN JSONstringify(list) ELSE NullItem]
    /\ now = MaxOld
    /\ isServerHealthy = TRUE
    /\ consecutiveFailures = 0
    /\ healthCheckInterval = TRUE
    /\ uploadedFiles = 0
    /\ dom = StartedPage
    /\ requests = <<>>
    /\ pollsInFlight = 1
    /\ savedTimers = 0
    /\ reloadTimers = 0
    /\ restorePending = TRUE
    /\ savesDone = 0

\* Restoration, the session selector with its delete and clear buttons, and
\* generations over such a list.
PageNext ==
    \/ PromptInput(<<"c", "a", "t">>)
    \/ Submit
    \/ \E i \in 1..MaxRequests : GenerateAnswer(i, WrappedAnswer, TRUE)
    \/ SavedTimerFires
    \/ RestoreTimerFires
    \/ \E k \in 0..(MAX_STORED_SESSIONS - 1) : SelectSession(k)
    \/ \E k \in 0..(MAX_STORED_SESSIONS - 1), q \in BOOLEAN : DeleteSessionClick(k, q)
    \/ \E c \in BOOLEAN : ClearAllClick(c)
    \/ UserReload

PageSpec == PageInit /\ [][PageNext]_vars

\* The health monitor and the form it validates: polls and their answers,
\* prompt edits, the reconnection dialog with its two buttons and its
\* timeout, teardown at beforeunload and the reloads.
MonitorNext ==
    \/ PollStart
    \/ \E v \in PromptValues : PromptInput(v)
    \/ \E o \in PollOutcomes : PollComplete(o)
    \/ DismissModal
    \/ RefreshNow
    \/ AutoReload
    \/ stopHealthMonitoring
    \/ UserReload

MonitorSpec == Init /\ [][MonitorNext]_vars

\* The same with the timeout of the reconnection dialog firing once it is
\* set and for as long as the page lives (setTimeout, app.js:137).
MonitorLiveSpec == Init /\ [][MonitorNext]_vars /\ WF_vars(AutoReload)

\* The health monitor next to everything else the page does over a list of
\* two stored sessions: generations with their three kinds of answer,
\* restoration, the delete and clear buttons of the session selector.
\* The timeouts set by saves stay pending, which bounds the saves.
FrameInit ==
    /\ localStorage = [k \in Keys |-> IF k = STORAGE_KEY
                                      THEN JSONstringify(OldList(2)) ELSE NullItem]
    /\ now = MaxOld
    /\ isServerHealthy = TRUE
    /\ consecutiveFailures = 0
    /\ healthCheckInterval = TRUE
    /\ uploadedFiles = 0
    /\ dom = StartedPage
    /\ requests = <<>>
    /\ pollsInFlight = 1
    /\ savedTimers = 0
    /\ reloadTimers = 0
    /\ restorePending = TRUE
    /\ savesDone = 0

FrameNext ==
    \/ PollStart
    \/ \E o \in {"ok", "netError"} : PollComplete(o)
    \/ PromptInput(<<"c", "a", "t">>)
    \/ Submit
    \/ \E i \in 1..MaxRequests, a \in {WrappedAnswer, FailedAnswer, RejectedAnswer} :
           GenerateAnswer(i, a, TRUE)
    \/ RestoreTimerFires
    \/ \E k \in 0..(MAX_STORED_SESSIONS - 1) : DeleteSessionClick(k, TRUE)
    \/ ClearAllClick(TRUE)

FrameSpec == FrameInit /\ [][FrameNext]_vars

\* ----------------------------------------------------------------- claims

\* The list stored under STORAGE_KEY, as the text holds it.
StoredList == localStorage[STORAGE_KEY].items

Ids(list) == [i \in 1..Len(list) |-> list[i].id]

\* `list` is still there in `later`, below whatever was put on top of it.
IsSuffix(list, later) ==
    /\ Len(list) <= Len(later)
    /\ SubSeq(later, Len(later) - Len(list) + 1, Len(later)) = list

\* C1: whatever session-store operations ran since the empty store (saves,
\* deleteSession, clearAllSessions, clearStoredSessions), the list stored
\* under imageGen_savedResults has at most 5 entries.
C1_AtMostFiveStored == Len(StoredList) <= 5

\* C1 witness: a 6th save went into a full list, and deleteSession has run.
C1_Witness ==
    /\ Len(StoredList) = 5
    /\ savesDone >= 6
    /\ localStorage[LEGACY_KEY].kind = "array"

\* C2 as stated: each entry's id is greater than the id of the entry after it.
C2_StrictlyDescendingIds ==
    \A i \in 1..(Len(StoredList) - 1) : StoredList[i].id > StoredList[i + 1].id

\* C2 as amended: the ids never increase along the list; two saves that read
\* the same clock value carry the same id.
C2_DescendingIds ==
    \A i \in 1..(Len(StoredList) - 1) : StoredList[i].id >= StoredList[i + 1].id

\* C2 witness: a list with a newer entry above two entries of one clock value.
C2_Witness ==
    /\ Len(StoredList) >= 3
    /\ StoredList[1].id > StoredList[2].id
    /\ StoredList[2].id = StoredList[3].id

\* C3: a save that is written replaces the stored list L by the first 5
\* entries of the new session followed by L: the new session is first, the
\* earlier entries follow in their order, and only the last one goes when L
\* had 5; on ids 5,4,3,2,1 a save at clock 6 leaves 6,5,4,3,2.
C3_SavePrependsAndTruncates ==
    [][ \A i \in 1..MaxRequests :
          GenerateAnswer(i, WrappedAnswer, TRUE) =>
            /\ Len(StoredList') = Min(Len(StoredList) + 1, 5)
            /\ StoredList'[1] = NewSession(now, dom.prompt, WrappedAnswer.urls)
            /\ \A k \in 2..Len(StoredList') : StoredList'[k] = StoredList[k - 1]
            /\ (Ids(StoredList) = <<5, 4, 3, 2, 1>> /\ now = 6)
                    => Ids(StoredList') = <<6, 5, 4, 3, 2>> ]_vars

\* C3 witness: six saves at clock values 1..6 left 6,5,4,3,2.
C3_Witness ==
    /\ savesDone >= 6
    /\ Ids(StoredList) = <<6, 5, 4, 3, 2>>

\* C4: deleteSession(index) on a valid index leaves, for the next load(), the
\* stored list without the entry at index; when that list is empty the
\* session browser, the session info and the image grid are cleared.
C4_DeleteRemovesEntry ==
    [][ \A k \in 0..(MAX_STORED_SESSIONS - 1) :
          (DeleteSessionClick(k, TRUE) /\ k < Len(StoredList)) =>
            LET before == loadSavedSessions(localStorage).value
                after == loadSavedSessions(localStorage').value
            IN  /\ Len(after) = Len(before) - 1
                /\ \A j \in 1..Len(after) :
                       after[j] = IF j <= k THEN before[j] ELSE before[j + 1]
                /\ after = <<>> =>
                       /\ dom'.sessionBrowser = NoBrowser
                       /\ dom'.sessionInfo = NoInfo
                       /\ dom'.imageGrid = <<>> ]_vars

\* C5: after a confirmed clearAllSessions the next load() returns the empty
\* list; a declined one leaves the stored list and the page as they were.
C5_ClearAllErasesIffConfirmed ==
    [][ /\ ClearAllClick(TRUE) => loadSavedSessions(localStorage').value = <<>>
        /\ ClearAllClick(FALSE) => (localStorage' = localStorage /\ dom' = dom)
      ]_vars

\* C6: stored sessions leave the list only by a delete click, a confirmed
\* clear, or a save into a full list; every other step keeps them.
C6_SessionsLeaveOnlyByDeleteClearEvict ==
    [][ ~IsSuffix(StoredList, StoredList') =>
          \/ \E k \in 0..(MAX_STORED_SESSIONS - 1), q \in BOOLEAN :
                 DeleteSessionClick(k, q)
          \/ ClearAllClick(TRUE)
          \/ /\ Len(StoredList) = 5
             /\ \E i \in 1..MaxRequests, q \in BOOLEAN :
                    GenerateAnswer(i, WrappedAnswer, q) ]_vars

\* C7: an answer {success: true, data: [{url}, ...]} has its images rendered
\* in the grid and a session saved whose images are those urls in order.
C7_DocumentedAnswerRenderedAndSaved ==
    [][ \A i \in 1..MaxRequests :
          GenerateAnswer(i, ListAnswer, TRUE) =>
            /\ dom'.imageGrid = ListAnswer.urls
            /\ dom'.resultsShown
            /\ Len(StoredList') >= 1
            /\ StoredList'[1].images = ListAnswer.urls ]_vars

\* C8: a failed poll adds one to consecutiveFailures and a successful one
\* resets it; the 1st consecutive failure shows Checking, the 2nd and every
\* later one shows Inactive with the submission control disabled and the
\* banner shown, the 3rd adds the modal, and a success after three failures
\* shows Active.
C8_FailureThresholds ==
    [][ \A o \in PollOutcomes :
          PollComplete(o) =>
            /\ o # "ok" => consecutiveFailures' = consecutiveFailures + 1
            /\ o = "ok" => consecutiveFailures' = 0
            /\ (o # "ok" /\ consecutiveFailures = 0) =>
                   dom'.navStatus = "Checking..."
            /\ (o # "ok" /\ consecutiveFailures >= 1) =>
                   /\ dom'.navStatus = "Inactive"
                   /\ dom'.generateBtnDisabled
                   /\ dom'.bannerShown
            /\ (o # "ok" /\ consecutiveFailures = 2) =>
                   dom'.modals = dom.modals + 1
            /\ (o = "ok" /\ consecutiveFailures = 3) =>
                   dom'.navStatus = "Active" ]_vars

\* C8 witness: three failures brought up the modal (its timeout is pending)
\* and a success then reset the counter and showed Active.
C8_Witness ==
    /\ reloadTimers = 1
    /\ dom.modals = 1
    /\ consecutiveFailures = 0
    /\ dom.navStatus = "Active"
    /\ ~dom.bannerShown

\* C9: a modal is added in exactly the steps in which a failed poll brings
\* consecutiveFailures to 3, one modal at a time: not on the 1st or 2nd
\* failure of a run and not again on the 4th or a later one.
C9_DialogExactlyAtThird ==
    [][ /\ dom'.modals <= dom.modals + 1
        /\ (dom'.modals > dom.modals) <=>
              /\ consecutiveFailures' = 3
              /\ \E o \in PollOutcomes \ {"ok"} : PollComplete(o) ]_vars

\* C9 witness: the 4th failure of a run is done and one modal is up.
C9_Witness ==
    /\ consecutiveFailures = 4
    /\ dom.modals = 1
    /\ reloadTimers = 1

\* C10 as stated: a successful poll after one or more failures resets the
\* counter, shows Active, hides the banner and enables the submission control.
C10_RecoveryEnablesSubmit ==
    [][ (PollComplete("ok") /\ consecutiveFailures >= 1) =>
          /\ consecutiveFailures' = 0
          /\ dom'.navStatus = "Active"
          /\ ~dom'.bannerShown
          /\ ~dom'.generateBtnDisabled ]_vars

\* C10 as amended: ... and validates the form again: the submission control
\* is enabled when the trimmed prompt has at least 3 characters and disabled
\* when it has fewer.
C10_RecoveryRevalidates ==
    [][ (PollComplete("ok") /\ consecutiveFailures >= 1) =>
          /\ consecutiveFailures' = 0
          /\ isServerHealthy'
          /\ dom'.navStatus = "Active"
          /\ ~dom'.bannerShown
          /\ dom'.generateBtnDisabled <=> (Len(Trim(dom.prompt)) < 3) ]_vars

\* C10 witness: after the failures that brought up the modal, a success has
\* reset the counter and the submission control is enabled again.
C10_Witness ==
    /\ reloadTimers = 1
    /\ consecutiveFailures = 0
    /\ isServerHealthy
    /\ ~dom.serverInactiveClass
    /\ dom.navStatus = "Active"
    /\ Len(Trim(dom.prompt)) >= 3
    /\ ~dom.generateBtnDisabled
    /\ requests = <<>>

\* C11 (as stated): in every reachable state isServerHealthy is true if and
\* only if consecutiveFailures equals 0.
C11_HealthyIffNoFailures ==
    isServerHealthy <=> (consecutiveFailures = 0)

\* C11 (amended): in every reachable state isServerHealthy is true if and
\* only if consecutiveFailures is at most 1: the first failure of a run
\* leaves the monitor healthy, the second makes it unhealthy.
C11_HealthyIffAtMostOneFailure ==
    isServerHealthy <=> (consecutiveFailures <= 1)

\* One failed poll has completed: the counter is 1, the monitor still healthy.
C11_Witness ==
    /\ consecutiveFailures = 1
    /\ isServerHealthy
    /\ dom.navStatus = "Checking..."
    /\ pollsInFlight = 0

\* C12: a GET /health answer with an HTTP success status never increments
\* consecutiveFailures, whatever its body (empty or not JSON included).
C12_SuccessStatusNeverCounts ==
    [][ \A o \in {"ok", "okBadBody"} :
          PollComplete(o) => consecutiveFailures' <= consecutiveFailures ]_vars

\* C13: a submit while isServerHealthy is false sends no request: it only
\* shows the server-inactive error and leaves the loading state, the results
\* and the stored sessions as they were.
C13_NoRequestWhileUnhealthy ==
    [][ (Submit /\ ~isServerHealthy) =>
          /\ requests' = requests
          /\ dom' = showError(dom, ServerInactiveMsg)
          /\ dom'.loadingShown = dom.loadingShown
          /\ dom'.resultsShown = dom.resultsShown
          /\ dom'.imageGrid = dom.imageGrid
          /\ localStorage' = localStorage ]_vars

\* A submit has run while the monitor was unhealthy: its error is on the
\* page and no request is in flight.
C13_Witness ==
    /\ ~isServerHealthy
    /\ dom.errorShown
    /\ dom.errorMessage = ServerInactiveMsg
    /\ dom.navStatus = "Error"
    /\ requests = <<>>

\* What load() gives for "no sessions": the empty list, without throwing.
EmptyLoad == [threw |-> FALSE, isArray |-> TRUE, value |-> <<>>]

\* C14: when the value stored under imageGen_savedResults is absent or is
\* not parseable as JSON, load() returns the empty list and does not throw;
\* the restoration that called it renders nothing.
C14_LoadEmptyOnAbsentOrGarbage ==
    [][ (RestoreTimerFires /\ localStorage[STORAGE_KEY].kind \in {"absent", "garbage"}) =>
          /\ loadSavedSessions(localStorage) = EmptyLoad
          /\ dom' = dom ]_vars

\* The restoration has run on a store holding a text that is not JSON.
C14_Witness ==
    /\ localStorage[STORAGE_KEY].kind = "garbage"
    /\ ~restorePending
    /\ dom.sessionInfo = NoInfo
    /\ dom.sessionBrowser = NoBrowser
    /\ dom.restoreNotice = 0

\* C15: when the stored value is valid JSON that is not an array of sessions
\* (null, a number, an object), load() returns the empty list.
C15_LoadEmptyOnWrongShape ==
    [][ (RestoreTimerFires /\ localStorage[STORAGE_KEY].kind \in {"null", "number", "object"}) =>
          loadSavedSessions(localStorage) = EmptyLoad ]_vars

\* C16: when a save fails (the stored text does not parse, the parsed value
\* is not an array, or the write is refused) the stored value is left as it
\* was, nothing is raised to the submit handler (no error is shown), the
\* results stay displayed and the handler completes its cleanup.
C16_FailedSaveIsSkipped ==
    [][ \A i \in 1..MaxRequests, q \in BOOLEAN :
          ( /\ GenerateAnswer(i, WrappedAnswer, q)
            /\ (~q \/ localStorage[STORAGE_KEY].kind \notin {"absent", "array"}) ) =>
              /\ localStorage' = localStorage
              /\ savedTimers' = savedTimers
              /\ dom'.errorShown = dom.errorShown
              /\ dom'.errorMessage = dom.errorMessage
              /\ dom'.imageGrid = WrappedAnswer.urls
              /\ dom'.resultsShown
              /\ ~dom'.loadingShown
              /\ ~dom'.generateBtnDisabled
              /\ dom'.navStatus = "Ready"
              /\ Len(requests') = Len(requests) - 1 ]_vars

\* A generation has been answered over a store whose text is not JSON: the
\* images are displayed, the store is as it was, the form is ready again.
C16_Witness ==
    /\ localStorage[STORAGE_KEY].kind = "garbage"
    /\ dom.imageGrid = WrappedAnswer.urls
    /\ dom.resultsShown
    /\ ~dom.errorShown
    /\ dom.navStatus = "Ready"
    /\ ~dom.generateBtnDisabled
    /\ requests = <<>>

\* C17: no operation stores a value under the legacy key imageSessions.
C17_LegacyKeyNeverWritten ==
    localStorage[LEGACY_KEY].kind = "absent"

\* C18: the restoration on page load, over a stored list of n >= 1 sessions,
\* displays session 0 and shows the count n; a selector exists iff n > 1 and
\* lists the stored sessions; choosing its entry i renders the grid and the
\* metadata of session i and sends no request.
C18_RestoreAndSelect ==
    [][ /\ (RestoreTimerFires /\ localStorage[STORAGE_KEY].kind = "array"
                              /\ Len(StoredList) >= 1) =>
              /\ dom'.imageGrid = StoredList[1].images
              /\ dom'.resultsShown
              /\ dom'.sessionInfo = <<StoredList[1]>>
              /\ dom'.restoreNotice = Len(StoredList)
              /\ (dom'.sessionBrowser # NoBrowser) <=> (Len(StoredList) > 1)
              /\ Len(StoredList) > 1 =>
                     dom'.sessionBrowser = <<[sessions |-> StoredList, active |-> 0]>>
              /\ requests' = requests
              /\ pollsInFlight' = pollsInFlight
        /\ \A i \in 0..(MAX_STORED_SESSIONS - 1) :
              SelectSession(i) =>
                  /\ dom'.imageGrid = dom.sessionBrowser[1].sessions[i + 1].images
                  /\ dom'.sessionInfo = <<dom.sessionBrowser[1].sessions[i + 1]>>
                  /\ dom'.sessionBrowser[1].active = i
                  /\ dom'.resultsShown
                  /\ requests' = requests
                  /\ pollsInFlight' = pollsInFlight
                  /\ localStorage' = localStorage ]_vars

\* After a restoration over three stored sessions the last entry of the
\* selector has been chosen: its session is on the page.
C18_Witness ==
    /\ localStorage[STORAGE_KEY] = JSONstringify(OldList(3))
    /\ ~restorePending
    /\ dom.restoreNotice = 3
    /\ dom.sessionBrowser = <<[sessions |-> OldList(3), active |-> 2]>>
    /\ dom.imageGrid = OldSession(1).images
    /\ dom.sessionInfo = <<OldSession(1)>>
    /\ requests = <<>>

\* C19: in every reachable state in which isServerHealthy is false the
\* submit button is disabled.
C19_InactiveDisablesSubmit ==
    ~isServerHealthy => dom.generateBtnDisabled

\* The message shown for an answer that reports a failure or carries no
\* image, as the claim C20 states it: the server's text, or a generic one
\* when the server supplies none.
GenericMessages == {UnknownErrorMsg, NoImagesMsg}

ServerTextOrGeneric(answer, message) ==
    IF answer.error # "" THEN message = answer.error
    ELSE message \in GenericMessages

\* C20 (as stated): when /generate answers with success false or with an
\* empty data list, an error message is shown, the server-supplied text or a
\* generic fallback when none is supplied; no image is rendered and no
\* session is saved.
C20_FailureShowsServerTextOrFallback ==
    [][ \A i \in 1..MaxRequests, q \in BOOLEAN :
        \A a \in StoreAnswers \ {WrappedAnswer} :
          GenerateAnswer(i, a, q) =>
              /\ dom'.errorShown
              /\ ServerTextOrGeneric(a, dom'.errorMessage)
              /\ dom'.imageGrid = IF a.success THEN <<>> ELSE dom.imageGrid
              /\ dom'.resultsShown = dom.resultsShown
              /\ localStorage' = localStorage ]_vars

\* C20 (amended): an answer with success false shows the server-supplied
\* error text, or 'An unknown error occurred' when none is supplied; an
\* answer with success true and an empty data list shows 'No images were
\* generated...' whatever error text it carries.  In both cases no image is
\* rendered and no session is saved.
C20_FailureShowsMessage ==
    [][ \A i \in 1..MaxRequests, q \in BOOLEAN :
        \A a \in StoreAnswers \ {WrappedAnswer} :
          GenerateAnswer(i, a, q) =>
              /\ dom'.errorShown
              /\ dom'.errorMessage =
                     IF a.success THEN NoImagesMsg
                     ELSE IF a.error # "" THEN a.error ELSE UnknownErrorMsg
              /\ dom'.imageGrid = IF a.success THEN <<>> ELSE dom.imageGrid
              /\ dom'.resultsShown = dom.resultsShown
              /\ localStorage' = localStorage ]_vars

\* An answer with success true and an empty data list has been handled over
\* two stored sessions: the generic message is shown, no image is on the
\* page, the two sessions are still the stored list.
C20_Witness ==
    /\ dom.errorShown
    /\ dom.errorMessage = NoImagesMsg
    /\ dom.imageGrid = <<>>
    /\ ~dom.resultsShown
    /\ dom.navStatus = "Ready"
    /\ requests = <<>>
    /\ localStorage[STORAGE_KEY] = JSONstringify(OldList(2))

\* C26: at most one POST /generate request is in flight at any time, and
\* while one is in flight the submit button stays disabled: no poll
\* completion and no prompt input event enables it again.
C26_OneRequestInFlight ==
    /\ Len(requests) <= 1
    /\ requests # <<>> => dom.generateBtnDisabled

\* C27: the status indicator never reads Active or Ready while
\* isServerHealthy is false.
C27_NoActiveOrReadyWhileInactive ==
    ~isServerHealthy => dom.navStatus \notin {"Active", "Ready"}

\* C29: whenever the trimmed prompt is shorter than 3 characters the submit
\* button is disabled, and no request in flight was sent with such a prompt.
C29_ShortPromptNeverSubmitted ==
    /\ Len(Trim(dom.prompt)) < 3 => dom.generateBtnDisabled
    /\ \A i \in 1..Len(requests) : Len(Trim(requests[i].prompt)) >= 3

\* C22: when the write of deleteSession is refused by the storage, no
\* exception leaves the click handler and the handler completes its refresh
\* of the page, as it does after an accepted write.
C22_DeleteFailureSwallowed ==
    [][ \A k \in 0..(MAX_STORED_SESSIONS - 1) :
          DeleteSessionClick(k, FALSE) =>
              /\ dom'.uncaught = dom.uncaught
              /\ dom' = deleteSession(localStorage, dom, k, TRUE).dom ]_vars

\* C25: displaying a session whose images list is empty, at restoration or
\* from the selector, leaves the grid without image and does not show the
\* results section.
C25_EmptySessionNotShown ==
    [][ /\ (RestoreTimerFires /\ Len(StoredList) >= 1 /\ StoredList[1].images = <<>>) =>
              /\ dom'.imageGrid = <<>>
              /\ dom'.resultsShown = dom.resultsShown
              /\ dom'.sessionInfo = <<StoredList[1]>>
        /\ \A i \in 0..(MAX_STORED_SESSIONS - 1) :
              ( /\ SelectSession(i)
                /\ dom.sessionBrowser[1].sessions[i + 1].images = <<>> ) =>
                  /\ dom'.imageGrid = <<>>
                  /\ dom'.resultsShown = dom.resultsShown ]_vars

\* A page restored over a list whose only session carries no image: the
\* session's metadata is on the page, the grid is empty and the results
\* section is not shown.
C25_Witness ==
    /\ StoredList = <<EmptySession(1)>>
    /\ ~restorePending
    /\ dom.sessionInfo = <<EmptySession(1)>>
    /\ dom.restoreNotice = 1
    /\ dom.imageGrid = <<>>
    /\ ~dom.resultsShown

\* C28: the entry that a delete click drops from the stored list is the
\* session shown at the clicked position of the rendered selector.
C28_DeleteDropsShownEntry ==
    [][ \A k \in 0..(MAX_STORED_SESSIONS - 1) :
          DeleteSessionClick(k, TRUE) =>
              LET stored == loadSavedSessions(localStorage).value
              IN  /\ k < Len(stored)
                  /\ stored[k + 1] = dom.sessionBrowser[1].sessions[k + 1] ]_vars

\* C23: after stopHealthMonitoring no new poll is started, and the completion
\* of a poll that was in flight changes neither consecutiveFailures,
\* isServerHealthy, the status indicator nor the reconnection dialog.
C23_ResultDiscardedAfterTeardown ==
    [][ /\ ~healthCheckInterval => ~PollStart
        /\ \A o \in PollOutcomes :
              (~healthCheckInterval /\ PollComplete(o)) =>
                  /\ consecutiveFailures' = consecutiveFailures
                  /\ isServerHealthy' = isServerHealthy
                  /\ dom'.navStatus = dom.navStatus
                  /\ dom'.modals = dom.modals ]_vars

\* A page just loaded: nothing restored yet, no timeout of a dialog pending.
JustLoaded ==
    /\ reloadTimers = 0
    /\ restorePending
    /\ dom = StartedPage
    /\ consecutiveFailures = 0
    /\ isServerHealthy

\* C24: once the reconnection dialog has been shown (its timeout is pending)
\* the page is eventually loaded again, whether the dialog is dismissed or
\* not and whether later polls succeed or not.
C24_ReloadFollowsPrompt ==
    (reloadTimers > 0) ~> JustLoaded

\* The dialog was shown, the user dismissed it and a later poll succeeded:
\* the timeout is still pending.
C24_Witness ==
    /\ reloadTimers = 1
    /\ dom.modals = 0
    /\ consecutiveFailures = 0
    /\ isServerHealthy
    /\ dom.navStatus = "Active"

\* C21: isServerHealthy and consecutiveFailures are changed only by the
\* completion of a health poll: submissions, answers to generation requests
\* (successful, rejected by the backend, network error), session store
\* operations and input events leave both as they are.
C21_HealthChangedOnlyByPolls ==
    [][ /\ (isServerHealthy' # isServerHealthy \/ consecutiveFailures' # consecutiveFailures)
              => \E o \in PollOutcomes : PollComplete(o)
        /\ ( \/ Submit
             \/ \E i \in 1..MaxRequests, a \in {WrappedAnswer, FailedAnswer, RejectedAnswer} :
                    GenerateAnswer(i, a, TRUE)
             \/ PromptInput(<<"c", "a", "t">>)
             \/ RestoreTimerFires
             \/ \E k \in 0..(MAX_STORED_SESSIONS - 1) : DeleteSessionClick(k, TRUE)
             \/ ClearAllClick(TRUE) )
              => UNCHANGED <<isServerHealthy, consecutiveFailures>> ]_vars

\* While the monitor is unhealthy after two failed polls, a generation
\* request has failed with a network error and the stored list has grown by
\* a save: the counter and the flag are what the polls left.
C21_Witness ==
    /\ ~isServerHealthy
    /\ consecutiveFailures = 2
    /\ dom.errorMessage = NetworkErrorMsg
    /\ dom.navStatus = "Ready"
    /\ requests = <<>>
    /\ Len(StoredList) >= 3
    /\ pollsInFlight = 0

====
